---- MODULE Spec2Model ----
(***************************************************************************)
(* Token wheel: the distribution builder, the wedge mapper, the sampler    *)
(* (backend/generator.py) and the session state machine of the REST API    *)
(* (backend/main.py).                                                      *)
(*                                                                         *)
(* Probabilities are fixed-point numbers: the integer p stands for         *)
(* p / Scale, so Scale stands for 1.0.  Angles are in units of 1 / Scale   *)
(* degree, so that probability * 360.0 is the integer p * 360 and the full *)
(* circle is 360 * Scale.  Strings are sequences of one-character strings. *)
(***************************************************************************)
EXTENDS Integers, Sequences, FiniteSets, TLC

VARIABLES
    sessions,   \* main.py `sessions`: session id -> SessionData
    created,    \* history: session id -> the start request that created it
    stopped,    \* history: ids of the sessions a select has answered should_continue = False
    now,        \* datetime.utcnow(), in minutes
    resp,       \* the response of the latest request
    b_probs,    \* builder harness: the probability vector given to the builder
    b_min,      \* builder harness: min_threshold
    b_sec,      \* builder harness: secondary_threshold
    b_dist,     \* builder harness: the distribution built (None before)
    b_wedges,   \* builder harness: the wedges mapped from b_dist (<<>> before)
    s_call,     \* sampler harness: the sampler call made and its outcome (None before)
    s_list      \* sampler harness: the token list made for the client (None before)

vars ==
    <<sessions, created, stopped, now, resp, b_probs, b_min, b_sec, b_dist, b_wedges,
      s_call, s_list>>

session_vars == <<sessions, created, stopped, now, resp>>

builder_vars == <<b_probs, b_min, b_sec, b_dist, b_wedges>>

sampler_vars == <<s_call, s_list>>

(***************************************************************************)
(* Bounds of the model and constants of the program.                       *)
(***************************************************************************)
\* 1.0 in fixed point: probabilities and thresholds are multiples of 1 / Scale.
Scale == 20

\* Accepted selects per session that the model follows.
MaxSteps == 3

\* The latest clock value, in minutes, at which the eviction model takes a request
\* that creates or finds a session.
LastRequestTime == 15

\* Accepted selects per session that the eviction model follows.
EvictionSteps == 1

\* should_end_generation(..., max_length: int = 50)
MaxLength == 50

\* tokenizer.eos_token_id: the id of the end-of-sequence token of the vocabulary below.
EosTokenId == 3

\* Optional[...] values: None, or a one-element sequence holding the value.
None == <<>>

Some(x) == <<x>>

Get(opt) == opt[1]

(***************************************************************************)
(* The vocabulary model (tokenizer and language model), an external        *)
(* collaborator: a small vocabulary in which "ab" is a token of its own,   *)
(* so that appending a token string need not add a token to the context.   *)
(***************************************************************************)
\* tokenizer.decode([token_id]) for token ids 0 .. VocabSize - 1 (index token_id + 1).
VocabStrings == << <<"a">>, <<"b">>, <<"a", "b">>, <<"$">> >>

VocabSize == Len(VocabStrings)

TokenIds == 0 .. (VocabSize - 1)

\* tokenizer.all_special_ids
AllSpecialIds == {EosTokenId}

Decode(token_id) == VocabStrings[token_id + 1]

IsPrefixAt(tok, s, i) ==
    /\ i + Len(tok) - 1 <= Len(s)
    /\ \A k \in 1 .. Len(tok) : s[i + k - 1] = tok[k]

\* The token the tokenizer reads at position i of s: the longest vocabulary string there.
LongestMatchAt(s, i) ==
    LET matching == {t \in TokenIds : IsPrefixAt(Decode(t), s, i)}
    IN  CHOOSE t \in matching :
            \A u \in matching : Len(Decode(u)) <= Len(Decode(t))

RECURSIVE EncodeFrom(_, _)
EncodeFrom(s, i) ==
    IF i > Len(s) THEN <<>>
    ELSE LET t == LongestMatchAt(s, i)
         IN  <<t>> \o EncodeFrom(s, i + Len(Decode(t)))

\* tokenizer.encode(context)
Encode(context) == EncodeFrom(context, 1)

TokenizeLength(context) == Len(Encode(context))

RECURSIVE SumSeq(_)
SumSeq(s) == IF s = <<>> THEN 0 ELSE s[1] + SumSeq(Tail(s))

\* The softmax outputs of the language model, one row per kind of context.
ModelTable ==
    << <<10, 6, 3, Scale - 19>>,
       <<8, 1, 1, Scale - 10>>,
       <<5, 5, 5, Scale - 15>>,
       <<Scale, 0, 0, 0>> >>

\* The context of the builder and sampler harnesses.  No session reaches it: a
\* session's context starts with its prompt.
BuilderContext == <<"$">>

\* softmax(model(encode(context)).logits[0, -1, :]): a fixed function of the context.
\* For the harness context the model answers the vector the harness has drawn.
Probabilities(context) ==
    IF context = BuilderContext THEN b_probs
    ELSE ModelTable[(Len(context) % Len(ModelTable)) + 1]

(***************************************************************************)
(* Distribution builder: TokenWheelGenerator.get_next_token_distribution   *)
(***************************************************************************)
TokenRecord(probs, token_id) ==
    [ token       |-> Decode(token_id),
      token_id    |-> token_id,
      probability |-> probs[token_id + 1],
      is_special  |-> token_id \in AllSpecialIds ]

\* [f(id) : id in np.where(mask)[0]]: the ids of `ids`, ascending, as token records.
RECURSIVE TokensOf(_, _, _)
TokensOf(probs, ids, from) ==
    IF from >= VocabSize THEN <<>>
    ELSE (IF from \in ids THEN <<TokenRecord(probs, from)>> ELSE <<>>)
         \o TokensOf(probs, ids, from + 1)

RECURSIVE SumProbability(_)
SumProbability(tokens) ==
    IF tokens = <<>> THEN 0 ELSE tokens[1].probability + SumProbability(Tail(tokens))

\* Where a stable descending sort puts t among the sorted tokens: after every token
\* whose probability is at least t's.
RECURSIVE InsertDescending(_, _)
InsertDescending(sorted, t) ==
    IF sorted = <<>> THEN <<t>>
    ELSE IF sorted[1].probability >= t.probability
         THEN <<sorted[1]>> \o InsertDescending(Tail(sorted), t)
         ELSE <<t>> \o sorted

RECURSIVE SortFrom(_, _, _)
SortFrom(tokens, i, acc) ==
    IF i > Len(tokens) THEN acc
    ELSE SortFrom(tokens, i + 1, InsertDescending(acc, tokens[i]))

SortNotApplied(tokens) == tokens

\* list.sort(key=lambda x: x['probability'], reverse=True): stable, descending.
SortByProbabilityDescending(tokens) == SortFrom(tokens, 1, <<>>)

\* probs_np >= min_threshold
PrimaryMask(probs, min_threshold) ==
    {t \in TokenIds : probs[t + 1] >= min_threshold}

SecondaryMaskStrict(probs, min_threshold, secondary_threshold) ==
    {t \in TokenIds : probs[t + 1] > secondary_threshold}
        \ PrimaryMask(probs, min_threshold)

\* (probs_np >= secondary_threshold) & (~primary_mask)
SecondaryMask(probs, min_threshold, secondary_threshold) ==
    {t \in TokenIds : probs[t + 1] >= secondary_threshold}
        \ PrimaryMask(probs, min_threshold)

NeedsSecondaryPassAlways(remaining_probability) == TRUE

NeedsSecondaryPassInclusive(remaining_probability) ==
    5 * remaining_probability >= Scale

\* remaining_probability > 0.2
NeedsSecondaryPass(remaining_probability) == 5 * remaining_probability > Scale

\* The tokens appended by the primary pass.
PrimaryTokens(probs, min_threshold) ==
    TokensOf(probs, PrimaryMask(probs, min_threshold), 0)

\* selected_tokens before the sort: the primary pass, then the secondary pass if it runs.
SelectedTokens(probs, min_threshold, secondary_threshold) ==
    LET primary == PrimaryTokens(probs, min_threshold)
    IN  IF NeedsSecondaryPass(Scale - SumProbability(primary))
        THEN primary \o TokensOf(probs,
                 SecondaryMask(probs, min_threshold, secondary_threshold), 0)
        ELSE primary

RemainingNotRecalculated(primary, selected) == Scale - SumProbability(primary)

\* remaining_probability = 1.0 - primary_probability_sum, recalculated as
\* 1.0 - total_probability_sum when the secondary pass runs.
RemainingProbability(primary, selected) ==
    IF NeedsSecondaryPass(Scale - SumProbability(primary))
    THEN Scale - SumProbability(selected)
    ELSE Scale - SumProbability(primary)

build_distribution(probs, context, min_threshold, secondary_threshold) ==
    LET selected == SelectedTokens(probs, min_threshold, secondary_threshold)
    IN  [ tokens                |-> SortByProbabilityDescending(selected),
          remaining_probability |->
              RemainingProbability(PrimaryTokens(probs, min_threshold), selected),
          context               |-> context,
          num_tokens            |-> Len(selected) ]

get_next_token_distribution(context, min_threshold, secondary_threshold) ==
    build_distribution(Probabilities(context), context, min_threshold,
                       secondary_threshold)

\* The sum of probs over a set of token ids.
RECURSIVE SumOver(_, _)
SumOver(probs, ids) ==
    IF ids = {} THEN 0
    ELSE LET t == CHOOSE x \in ids : TRUE
         IN  probs[t + 1] + SumOver(probs, ids \ {t})

CandidateIds(distribution) ==
    {distribution.tokens[i].token_id : i \in 1 .. Len(distribution.tokens)}

(***************************************************************************)
(* Wedge mapper: TokenWheelGenerator.map_distribution_to_wedges            *)
(***************************************************************************)
FullCircle == 360 * Scale

OtherToken == <<"<", "O", "T", "H", "E", "R", ">">>

RECURSIVE TokenWedges(_, _)
TokenWedges(tokens, current_angle) ==
    IF tokens = <<>> THEN <<>>
    ELSE LET wedge_angle == tokens[1].probability * 360
         IN  << [ token       |-> tokens[1].token,
                  token_id    |-> tokens[1].token_id,
                  probability |-> tokens[1].probability,
                  start_angle |-> current_angle,
                  end_angle   |-> current_angle + wedge_angle,
                  is_special  |-> tokens[1].is_special,
                  is_other    |-> FALSE ] >>
             \o TokenWedges(Tail(tokens), current_angle + wedge_angle)

MapWithoutOtherWedge(distribution) == TokenWedges(distribution.tokens, 0)

MapAlwaysOtherWedge(distribution) ==
    Append(TokenWedges(distribution.tokens, 0),
           [ token       |-> OtherToken,
             token_id    |-> -1,
             probability |-> distribution.remaining_probability,
             start_angle |-> SumProbability(distribution.tokens) * 360,
             end_angle   |-> FullCircle,
             is_special  |-> FALSE,
             is_other    |-> TRUE ])

map_distribution_to_wedges(distribution) ==
    LET wedges        == TokenWedges(distribution.tokens, 0)
        current_angle == SumProbability(distribution.tokens) * 360
    IN  IF distribution.remaining_probability > 0
        THEN Append(wedges,
                 [ token       |-> OtherToken,
                   token_id    |-> -1,
                   probability |-> distribution.remaining_probability,
                   start_angle |-> current_angle,
                   end_angle   |-> FullCircle,
                   is_special  |-> FALSE,
                   is_other    |-> TRUE ])
        ELSE wedges

(***************************************************************************)
(* Token list for the client: get_tokens_with_probabilities                *)
(***************************************************************************)
\* get_tokens_with_probabilities(..., top_other_count: int = 5)
TopOtherCount == 5

RemainingTokensLabel == <<"Remaining Tokens">>

\* The ids of range(len(probs_np)) outside `included` whose probability is > 0,
\* ascending, as {token_id, probability} records.
RECURSIVE OtherTokensFrom(_, _, _)
OtherTokensFrom(probs, included, from) ==
    IF from >= VocabSize THEN <<>>
    ELSE (IF from \notin included /\ probs[from + 1] > 0
          THEN << [token_id |-> from, probability |-> probs[from + 1]] >>
          ELSE <<>>)
         \o OtherTokensFrom(probs, included, from + 1)

Min(a, b) == IF a <= b THEN a ELSE b

TokensWithoutCap(distribution, top_other_count) ==
    LET main == [ i \in 1 .. Len(distribution.tokens) |->
                    [ token            |-> distribution.tokens[i].token,
                      token_id         |-> distribution.tokens[i].token_id,
                      probability      |-> distribution.tokens[i].probability,
                      is_special       |-> distribution.tokens[i].is_special,
                      is_other         |-> FALSE,
                      other_top_tokens |-> None,
                      remaining_count  |-> None ] ]
        other_tokens == SortByProbabilityDescending(
                            OtherTokensFrom(Probabilities(distribution.context),
                                            CandidateIds(distribution), 0))
        top == [ i \in 1 .. Len(other_tokens) |->
                    [ token       |-> Decode(other_tokens[i].token_id),
                      token_id    |-> other_tokens[i].token_id,
                      probability |-> other_tokens[i].probability ] ]
    IN  IF distribution.remaining_probability > 0
        THEN Append(main,
                 [ token            |-> RemainingTokensLabel,
                   token_id         |-> -1,
                   probability      |-> distribution.remaining_probability,
                   is_special       |-> FALSE,
                   is_other         |-> TRUE,
                   other_top_tokens |-> Some(top),
                   remaining_count  |-> Some(Len(other_tokens)) ])
        ELSE main

\* TokenWheelGenerator.get_tokens_with_probabilities(distribution, top_other_count)
TokensWithProbabilities(distribution, top_other_count) ==
    LET main == [ i \in 1 .. Len(distribution.tokens) |->
                    [ token            |-> distribution.tokens[i].token,
                      token_id         |-> distribution.tokens[i].token_id,
                      probability      |-> distribution.tokens[i].probability,
                      is_special       |-> distribution.tokens[i].is_special,
                      is_other         |-> FALSE,
                      other_top_tokens |-> None,
                      remaining_count  |-> None ] ]
        other_tokens == SortByProbabilityDescending(
                            OtherTokensFrom(Probabilities(distribution.context),
                                            CandidateIds(distribution), 0))
        top == [ i \in 1 .. Min(top_other_count, Len(other_tokens)) |->
                    [ token       |-> Decode(other_tokens[i].token_id),
                      token_id    |-> other_tokens[i].token_id,
                      probability |-> other_tokens[i].probability ] ]
    IN  IF distribution.remaining_probability > 0
        THEN Append(main,
                 [ token            |-> RemainingTokensLabel,
                   token_id         |-> -1,
                   probability      |-> distribution.remaining_probability,
                   is_special       |-> FALSE,
                   is_other         |-> TRUE,
                   other_top_tokens |-> Some(top),
                   remaining_count  |-> Some(Len(other_tokens)) ])
        ELSE main

\* The call with the default top_other_count, as start_generation and select_token
\* make it.
get_tokens_with_probabilities(distribution) ==
    TokensWithProbabilities(distribution, TopOtherCount)

(***************************************************************************)
(* Sampler.  A sampling operator denotes the set of its possible outcomes: *)
(* the results it can return, or the exception it raises.                  *)
(***************************************************************************)
Result(token, token_id, probability, wedge, target_angle, is_other) ==
    [ ok           |-> TRUE,
      error        |-> "",
      token        |-> token,
      token_id     |-> token_id,
      probability  |-> probability,
      wedge_start  |-> wedge.start_angle,
      wedge_end    |-> wedge.end_angle,
      target_angle |-> target_angle,
      is_other     |-> is_other ]

Raised(error) ==
    [ ok           |-> FALSE,
      error        |-> error,
      token        |-> <<>>,
      token_id     |-> -1,
      probability  |-> 0,
      wedge_start  |-> 0,
      wedge_end    |-> 0,
      target_angle |-> 0,
      is_other     |-> FALSE ]

\* np.random.uniform(low, high): the ends of the range and its middle stand for the
\* values it can draw.
Uniform(low, high) == {low, (low + high) \div 2, high}

OtherDrawableAnyToken(distribution) ==
    {t \in TokenIds : Probabilities(distribution.context)[t + 1] > 0}

OtherDrawableZeroToo(distribution) == TokenIds \ CandidateIds(distribution)

\* The ids np.random.choice can draw in _sample_from_other: the ids outside the
\* candidates, weighted by probability, or all of them alike when their sum is 0.
OtherDrawable(distribution) ==
    LET probs == Probabilities(distribution.context)
        other == TokenIds \ CandidateIds(distribution)
    IN  IF SumOver(probs, other) > 0
        THEN {t \in other : probs[t + 1] > 0}
        ELSE other

SampleFromOtherRedraws(distribution, other_wedge, target_angle) ==
    LET probs == Probabilities(distribution.context)
    IN  IF TokenIds \ CandidateIds(distribution) = {}
        THEN {Raised("ValueError")}
        ELSE { Result(Decode(t), t, probs[t + 1], other_wedge, a, TRUE) :
                 t \in OtherDrawable(distribution), a \in Uniform(0, FullCircle) }

SampleFromOtherFallsBack(distribution, other_wedge, target_angle) ==
    LET probs == Probabilities(distribution.context)
        other == TokenIds \ CandidateIds(distribution)
    IN  { Result(Decode(t), t, probs[t + 1], other_wedge, target_angle, TRUE) :
            t \in IF other = {} THEN TokenIds ELSE OtherDrawable(distribution) }

\* TokenWheelGenerator._sample_from_other: np.random.choice over the ids outside the
\* candidates; with no such id it is np.random.choice(0, p=[]), which raises
\* ValueError.
sample_from_other(distribution, other_wedge, target_angle) ==
    LET probs == Probabilities(distribution.context)
    IN  IF TokenIds \ CandidateIds(distribution) = {}
        THEN {Raised("ValueError")}
        ELSE { Result(Decode(t), t, probs[t + 1], other_wedge, target_angle, TRUE) :
                 t \in OtherDrawable(distribution) }

Last(seq) == seq[Len(seq)]

sample_token_from_distribution(distribution) ==
    LET tokens == distribution.tokens
        wedges == map_distribution_to_wedges(distribution)
        regular ==
            UNION { { Result(tokens[i].token, tokens[i].token_id,
                             tokens[i].probability, wedges[i], a, FALSE) :
                        a \in Uniform(wedges[i].start_angle, wedges[i].end_angle) } :
                    i \in {j \in 1 .. Len(tokens) : tokens[j].probability > 0} }
        other ==
            IF distribution.remaining_probability > 0
            THEN UNION { sample_from_other(distribution, Last(wedges), a) :
                           a \in Uniform(Last(wedges).start_angle,
                                         Last(wedges).end_angle) }
            ELSE {}
    IN  regular \cup other

SelectByIdResamplesUnknown(distribution, token_id) ==
    LET tokens == distribution.tokens
        wedges == map_distribution_to_wedges(distribution)
        found  == {i \in 1 .. Len(tokens) : tokens[i].token_id = token_id}
    IN  IF found # {}
        THEN LET i == CHOOSE x \in found : \A y \in found : x <= y
             IN  { Result(tokens[i].token, tokens[i].token_id, tokens[i].probability,
                          wedges[i], a, FALSE) :
                     a \in Uniform(wedges[i].start_angle, wedges[i].end_angle) }
        ELSE UNION { sample_from_other(distribution, Last(wedges), a) :
                       a \in Uniform(Last(wedges).start_angle, Last(wedges).end_angle) }

select_token_by_id(distribution, token_id) ==
    LET tokens == distribution.tokens
        wedges == map_distribution_to_wedges(distribution)
        found  == {i \in 1 .. Len(tokens) : tokens[i].token_id = token_id}
    IN  IF found # {}
        THEN LET i == CHOOSE x \in found : \A y \in found : x <= y
             IN  { Result(tokens[i].token, tokens[i].token_id, tokens[i].probability,
                          wedges[i], a, FALSE) :
                     a \in Uniform(wedges[i].start_angle, wedges[i].end_angle) }
        ELSE IF token_id = -1
        THEN IF wedges = <<>>
             THEN {Raised("IndexError")}
             ELSE UNION { sample_from_other(distribution, Last(wedges), a) :
                            a \in Uniform(Last(wedges).start_angle,
                                          Last(wedges).end_angle) }
        ELSE {Raised("ValueError")}

SelectFromAngleInclusiveEnd(distribution, landing_angle) ==
    LET tokens == distribution.tokens
        wedges == map_distribution_to_wedges(distribution)
        hits   == {i \in 1 .. Len(wedges) :
                     /\ wedges[i].start_angle <= landing_angle
                     /\ landing_angle <= wedges[i].end_angle}
    IN  IF hits = {}
        THEN {Raised("ValueError")}
        ELSE LET i == CHOOSE x \in hits : \A y \in hits : x <= y
             IN  IF wedges[i].is_other
                 THEN sample_from_other(distribution, wedges[i], landing_angle)
                 ELSE { Result(tokens[i].token, tokens[i].token_id,
                               tokens[i].probability, wedges[i], landing_angle,
                               FALSE) }

\* TokenWheelGenerator.select_token_from_angle: the first wedge with
\* start_angle <= landing_angle < end_angle; the last wedge when none holds it and
\* landing_angle == 360.0; ValueError when no wedge is selected.
select_token_from_angle(distribution, landing_angle) ==
    LET tokens == distribution.tokens
        wedges == map_distribution_to_wedges(distribution)
        hits   == {i \in 1 .. Len(wedges) :
                     /\ wedges[i].start_angle <= landing_angle
                     /\ landing_angle < wedges[i].end_angle}
    IN  IF hits = {} /\ landing_angle = FullCircle /\ wedges = <<>>
        THEN {Raised("IndexError")}
        ELSE IF hits = {} /\ landing_angle # FullCircle
        THEN {Raised("ValueError")}
        ELSE LET i == IF hits # {} THEN CHOOSE x \in hits : \A y \in hits : x <= y
                      ELSE Len(wedges)
             IN  IF wedges[i].is_other
                 THEN sample_from_other(distribution, wedges[i], landing_angle)
                 ELSE { Result(tokens[i].token, tokens[i].token_id,
                               tokens[i].probability, wedges[i], landing_angle,
                               FALSE) }

MaxLengthExclusive(token_info, context) ==
    \/ token_info.token_id = EosTokenId
    \/ TokenizeLength(context) > MaxLength

\* TokenWheelGenerator.should_end_generation
should_end_generation(token_info, context) ==
    \/ token_info.token_id = EosTokenId
    \/ TokenizeLength(context) >= MaxLength

(***************************************************************************)
(* Sessions and the REST handlers of main.py                               *)
(***************************************************************************)
\* The session ids the server can issue (str(uuid.uuid4())); an id is issued once.
SessionIds == {1, 2}

\* The session ids Spec follows: one session, through every request.
SpecSessionIds == {1}

\* app.state.available_models
AvailableModels == {"gpt2"}

RequestModels == {"gpt2", "llama-3.2-1b"}

LongPrompt == [i \in 1 .. (MaxLength - 2) |-> "b"]

RequestPrompts == {<<>>, <<"a">>, LongPrompt}

\* (min_threshold, secondary_threshold) of a start request: the defaults 0.1 and
\* 0.05, both 1.0, both 0.0, a primary threshold above 1.0 and a secondary
\* threshold below 0.0.
RequestThresholds ==
    { <<Scale \div 10, Scale \div 20>>, <<Scale, Scale>>, <<0, 0>>,
      <<Scale + 1, Scale \div 20>>, <<Scale \div 10, -1>> }

RequestTokenIds == TokenIds \cup {-1, -2, VocabSize}

NoResponse == [op |-> "none", session_id |-> 0, status |-> 0, body |-> None]

\* raise HTTPException(status_code=status, ...)
HttpError(op, session_id, status) ==
    [op |-> op, session_id |-> session_id, status |-> status, body |-> None]

Ok(op, session_id, body) ==
    [op |-> op, session_id |-> session_id, status |-> 200, body |-> body]

\* RequestValidationError: HTTP 422, the body names the fields that failed.
ValidationError(op, fields) ==
    [op |-> op, session_id |-> 0, status |-> 422, body |-> fields]

InvalidFieldsNoUpperBound(prompt, min_threshold, secondary_threshold) ==
    (IF Len(prompt) >= 1 THEN {} ELSE {"prompt"})
        \cup (IF min_threshold >= 0 THEN {} ELSE {"min_threshold"})
        \cup (IF secondary_threshold >= 0 THEN {} ELSE {"secondary_threshold"})

\* StartRequest: prompt min_length=1, thresholds ge=0.0, le=1.0
InvalidFields(prompt, min_threshold, secondary_threshold) ==
    (IF Len(prompt) >= 1 THEN {} ELSE {"prompt"})
        \cup (IF min_threshold >= 0 /\ min_threshold <= Scale
              THEN {} ELSE {"min_threshold"})
        \cup (IF secondary_threshold >= 0 /\ secondary_threshold <= Scale
              THEN {} ELSE {"secondary_threshold"})

ValidStartRequest(prompt, min_threshold, secondary_threshold) ==
    InvalidFields(prompt, min_threshold, secondary_threshold) = {}

\* SessionData.__init__
SessionData(session_id, current_context, model_key, min_threshold, secondary_threshold) ==
    [ session_id           |-> session_id,
      current_context      |-> current_context,
      model_key            |-> model_key,
      history              |-> <<>>,
      step                 |-> 0,
      created_at           |-> now,
      last_accessed        |-> now,
      min_threshold        |-> min_threshold,
      secondary_threshold  |-> secondary_threshold,
      current_distribution |-> None ]

PutAlone(map, key, value) == [k \in {key} |-> value]

\* sessions[session_id] = session_data
Put(map, key, value) ==
    [k \in DOMAIN map \cup {key} |-> IF k = key THEN value ELSE map[k]]

RemoveAll(map, key) == <<>>

\* del sessions[session_id]
Remove(map, key) == [k \in DOMAIN map \ {key} |-> map[k]]

\* session.last_accessed = datetime.utcnow()
Touch(session) == [session EXCEPT !.last_accessed = now]

\* POST /api/start
start_generation(prompt, model, min_threshold, secondary_threshold) ==
    IF ~ValidStartRequest(prompt, min_threshold, secondary_threshold)
    THEN /\ resp' = ValidationError("start", InvalidFields(prompt, min_threshold,
                                                           secondary_threshold))
         /\ UNCHANGED <<sessions, created, stopped, now, builder_vars, sampler_vars>>
    ELSE IF model \notin AvailableModels
    THEN /\ resp' = HttpError("start", 0, 400)
         /\ UNCHANGED <<sessions, created, stopped, now, builder_vars, sampler_vars>>
    ELSE \E session_id \in SessionIds \ DOMAIN created :
            LET distribution == get_next_token_distribution(prompt, min_threshold,
                                                            secondary_threshold)
                session_data ==
                    [ SessionData(session_id, prompt, model, min_threshold,
                                  secondary_threshold)
                      EXCEPT !.current_distribution = Some(distribution) ]
            IN  /\ sessions' = Put(sessions, session_id, session_data)
                /\ created' = Put(created, session_id,
                                  [ prompt              |-> prompt,
                                    model               |-> model,
                                    min_threshold       |-> min_threshold,
                                    secondary_threshold |-> secondary_threshold ])
                /\ resp' = Ok("start", session_id,
                              [ session_id |-> session_id,
                                context    |-> prompt,
                                tokens     |-> get_tokens_with_probabilities(distribution),
                                step       |-> 0,
                                model      |-> model ])
                /\ UNCHANGED <<stopped, now, builder_vars, sampler_vars>>

SpinWheelAdvances(session_id) ==
    IF session_id \notin DOMAIN sessions
    THEN /\ resp' = HttpError("spin", session_id, 404)
         /\ UNCHANGED <<sessions, created, stopped, now, builder_vars, sampler_vars>>
    ELSE LET session == Touch(sessions[session_id])
         IN  /\ sessions' = [sessions EXCEPT ![session_id] =
                                 [session EXCEPT !.step = @ + 1]]
             /\ \E info \in sample_token_from_distribution(
                                  Get(session.current_distribution)) :
                    resp' = IF info.ok
                            THEN Ok("spin", session_id,
                                    [ token        |-> info.token,
                                      token_id     |-> info.token_id,
                                      probability  |-> info.probability,
                                      target_angle |-> info.target_angle ])
                            ELSE HttpError("spin", session_id, 500)
             /\ UNCHANGED <<created, stopped, now, builder_vars, sampler_vars>>

\* POST /api/spin
spin_wheel(session_id) ==
    IF session_id \notin DOMAIN sessions
    THEN /\ resp' = HttpError("spin", session_id, 404)
         /\ UNCHANGED <<sessions, created, stopped, now, builder_vars, sampler_vars>>
    ELSE LET session == Touch(sessions[session_id])
         IN  /\ sessions' = [sessions EXCEPT ![session_id] = session]
             /\ IF session.current_distribution = None
                THEN resp' = HttpError("spin", session_id, 500)
                ELSE \E info \in sample_token_from_distribution(
                                     Get(session.current_distribution)) :
                        resp' = IF info.ok
                                THEN Ok("spin", session_id,
                                        [ token        |-> info.token,
                                          token_id     |-> info.token_id,
                                          probability  |-> info.probability,
                                          target_angle |-> info.target_angle ])
                                ELSE HttpError("spin", session_id, 500)
             /\ UNCHANGED <<created, stopped, now, builder_vars, sampler_vars>>

AdvancePrepending(session, selected_token) ==
    [ session EXCEPT !.current_context = selected_token \o @,
                     !.history = Append(@, selected_token),
                     !.step = @ + 1 ]

AdvanceWithoutHistory(session, selected_token) ==
    [ session EXCEPT !.current_context = @ \o selected_token,
                     !.step = @ + 1 ]

\* new_context = session.current_context + selected_token; session.current_context =
\* new_context; session.history.append(selected_token); session.step += 1
Advance(session, selected_token) ==
    [ session EXCEPT !.current_context = @ \o selected_token,
                     !.history = Append(@, selected_token),
                     !.step = @ + 1 ]

NextDistributionDefaultThresholds(session) ==
    get_next_token_distribution(session.current_context, Scale \div 10,
                                Scale \div 20)

\* generator.get_next_token_distribution(context=new_context,
\*     min_threshold=session.min_threshold,
\*     secondary_threshold=session.secondary_threshold)
NextDistribution(session) ==
    get_next_token_distribution(session.current_context, session.min_threshold,
                                session.secondary_threshold)

\* The token_info select_token resolves for selected_token_id: the outcomes of
\* select_token_by_id for -1; for any other id the handler first calls
\* generator._decode_token, which TokenWheelGenerator does not define, so that the
\* attribute lookup raises AttributeError.
ResolveToken(distribution, selected_token_id) ==
    IF selected_token_id # -1
    THEN {Raised("AttributeError")}
    ELSE select_token_by_id(distribution, -1)

SelectResponseAlwaysNext(session, token_info, should_continue) ==
    [ selected_token             |-> token_info.token,
      selected_token_probability |-> token_info.probability,
      new_context                |-> session.current_context,
      should_continue            |-> should_continue,
      next_tokens                |->
          Some(get_tokens_with_probabilities(Get(session.current_distribution))),
      step                       |-> session.step,
      token_id                   |-> token_info.token_id ]

\* SelectResponse(...) of both branches; token_id is token_info['token_id'], which
\* decided should_continue and is not sent to the client.
SelectResponse(session, token_info, should_continue) ==
    [ selected_token             |-> token_info.token,
      selected_token_probability |-> token_info.probability,
      new_context                |-> session.current_context,
      should_continue            |-> should_continue,
      next_tokens                |->
          IF should_continue
          THEN Some(get_tokens_with_probabilities(Get(session.current_distribution)))
          ELSE None,
      step                       |-> session.step,
      token_id                   |-> token_info.token_id ]

\* POST /api/select
select_token(session_id, selected_token_id) ==
    IF session_id \notin DOMAIN sessions
    THEN /\ resp' = HttpError("select", session_id, 404)
         /\ UNCHANGED <<sessions, created, stopped, now, builder_vars, sampler_vars>>
    ELSE LET session == Touch(sessions[session_id])
         IN  IF session.current_distribution = None
             THEN /\ sessions' = [sessions EXCEPT ![session_id] = session]
                  /\ resp' = HttpError("select", session_id, 400)
                  /\ UNCHANGED <<created, stopped, now, builder_vars, sampler_vars>>
             ELSE \E token_info \in ResolveToken(Get(session.current_distribution),
                                                  selected_token_id) :
                    IF ~token_info.ok
                    THEN /\ sessions' = [sessions EXCEPT ![session_id] = session]
                         /\ resp' = HttpError("select", session_id, 500)
                         /\ UNCHANGED <<created, stopped, now, builder_vars, sampler_vars>>
                    ELSE LET advanced == Advance(session, token_info.token)
                             should_continue ==
                                 ~should_end_generation(token_info,
                                                        advanced.current_context)
                             final ==
                                 IF should_continue
                                 THEN [ advanced EXCEPT !.current_distribution =
                                            Some(NextDistribution(advanced)) ]
                                 ELSE advanced
                         IN  /\ session.step < MaxSteps
                             /\ sessions' = [sessions EXCEPT ![session_id] = final]
                             /\ stopped' = IF should_continue
                                           THEN stopped
                                           ELSE stopped \cup {session_id}
                             /\ resp' = Ok("select", session_id,
                                           SelectResponse(final, token_info,
                                                          should_continue))
                             /\ UNCHANGED <<created, now, builder_vars, sampler_vars>>

\* GET /api/session/{session_id}
get_session(session_id) ==
    IF session_id \notin DOMAIN sessions
    THEN /\ resp' = HttpError("get", session_id, 404)
         /\ UNCHANGED <<sessions, created, stopped, now, builder_vars, sampler_vars>>
    ELSE LET session == Touch(sessions[session_id])
         IN  /\ sessions' = [sessions EXCEPT ![session_id] = session]
             /\ resp' = Ok("get", session_id,
                           [ session_id      |-> session.session_id,
                             current_context |-> session.current_context,
                             step            |-> session.step,
                             history         |-> session.history ])
             /\ UNCHANGED <<created, stopped, now, builder_vars, sampler_vars>>

DeleteSessionIdempotent(session_id) ==
    /\ sessions' = Remove(sessions, session_id)
    /\ resp' = Ok("delete", session_id, [message |-> "Session deleted"])
    /\ UNCHANGED <<created, stopped, now, builder_vars, sampler_vars>>

DeleteSessionKeeps(session_id) ==
    IF session_id \notin DOMAIN sessions
    THEN /\ resp' = HttpError("delete", session_id, 404)
         /\ UNCHANGED <<sessions, created, stopped, now, builder_vars, sampler_vars>>
    ELSE /\ resp' = Ok("delete", session_id, [message |-> "Session deleted"])
         /\ UNCHANGED <<sessions, created, stopped, now, builder_vars, sampler_vars>>

\* DELETE /api/session/{session_id}
delete_session(session_id) ==
    IF session_id \notin DOMAIN sessions
    THEN /\ resp' = HttpError("delete", session_id, 404)
         /\ UNCHANGED <<sessions, created, stopped, now, builder_vars, sampler_vars>>
    ELSE /\ sessions' = Remove(sessions, session_id)
         /\ resp' = Ok("delete", session_id, [message |-> "Session deleted"])
         /\ UNCHANGED <<created, stopped, now, builder_vars, sampler_vars>>

\* SESSION_TTL_MINUTES = 30
SESSION_TTL_MINUTES == 30

\* CLEANUP_INTERVAL_MINUTES = 5
CLEANUP_INTERVAL_MINUTES == 5

CleanupInclusive ==
    LET expired == {s \in DOMAIN sessions :
                      now - sessions[s].last_accessed >= SESSION_TTL_MINUTES}
    IN  /\ sessions' = [s \in DOMAIN sessions \ expired |-> sessions[s]]
        /\ UNCHANGED <<created, stopped, now, resp, builder_vars, sampler_vars>>

CleanupNothing ==
    UNCHANGED vars

\* One pass of the loop of cleanup_expired_sessions, after asyncio.sleep returns:
\* the sessions idle for more than SESSION_TTL_MINUTES are deleted.
cleanup_expired_sessions ==
    LET expired == {s \in DOMAIN sessions :
                      now - sessions[s].last_accessed > SESSION_TTL_MINUTES}
    IN  /\ sessions' = [s \in DOMAIN sessions \ expired |-> sessions[s]]
        /\ UNCHANGED <<created, stopped, now, resp, builder_vars, sampler_vars>>

Init ==
    /\ sessions = <<>>
    /\ created = <<>>
    /\ stopped = {}
    /\ now = 0
    /\ resp = NoResponse
    /\ b_probs = ModelTable[1]
    /\ b_min = 0
    /\ b_sec = 0
    /\ b_dist = None
    /\ b_wedges = <<>>
    /\ s_call = None
    /\ s_list = None

Next ==
    \/ \E prompt \in RequestPrompts, model \in RequestModels,
          thresholds \in RequestThresholds :
            /\ start_generation(prompt, model, thresholds[1], thresholds[2])
            /\ DOMAIN created' \subseteq SpecSessionIds
    \/ \E session_id \in SpecSessionIds : spin_wheel(session_id)
    \/ \E session_id \in SpecSessionIds, token_id \in RequestTokenIds :
            select_token(session_id, token_id)
    \/ \E session_id \in SpecSessionIds : get_session(session_id)
    \/ \E session_id \in SpecSessionIds : delete_session(session_id)

Spec == Init /\ [][Next]_vars


(***************************************************************************)
(* Claims about the session state machine, checked under Spec.             *)
(***************************************************************************)
RECURSIVE Concat(_)
Concat(strings) ==
    IF strings = <<>> THEN <<>> ELSE strings[1] \o Concat(Tail(strings))

\* The latest request was a select that was accepted (HTTP 200).
AcceptedSelect == resp.op = "select" /\ resp.status = 200

\* C1: every accepted select increases step by exactly 1, appends exactly the
\* accepted token string to history, and sets current_context (and the new_context
\* it reports) to the previous context followed by that token string.
C1_AdvanceAppendsToken ==
    [][ \A s \in SessionIds, t \in RequestTokenIds :
          (resp'.op = "select" /\ resp'.status = 200 /\ select_token(s, t)) =>
              /\ sessions'[s].step = sessions[s].step + 1
              /\ sessions'[s].history =
                     Append(sessions[s].history, resp'.body.selected_token)
              /\ sessions'[s].current_context =
                     sessions[s].current_context \o resp'.body.selected_token
              /\ resp'.body.new_context = sessions'[s].current_context
              /\ resp'.body.step = sessions'[s].step
              /\ resp'.body.selected_token = Decode(resp'.body.token_id) ]_vars

\* A second token has just been accepted.
C1_Witness ==
    /\ AcceptedSelect
    /\ resp.session_id \in DOMAIN sessions
    /\ sessions[resp.session_id].step = 2

\* C2: in every state of every registered session len(history) = step and
\* current_context is the creation prompt followed by the history in order; step
\* never decreases.
C2_HistoryMatchesStep ==
    /\ [](\A s \in DOMAIN sessions :
            /\ Len(sessions[s].history) = sessions[s].step
            /\ sessions[s].current_context =
                   created[s].prompt \o Concat(sessions[s].history))
    /\ [][ \A s \in DOMAIN sessions \cap DOMAIN sessions' :
              sessions'[s].step >= sessions[s].step ]_vars

\* A session with two tokens in its history has just been read.
C2_Witness ==
    /\ resp.op = "get" /\ resp.status = 200
    /\ resp.session_id \in DOMAIN sessions
    /\ sessions[resp.session_id].step = 2
    /\ resp.body.history = sessions[resp.session_id].history

\* C3: once a select has answered should_continue = False the session is
\* terminated: no later select on it is accepted, and its step, history and
\* current_context never change again.
C3_TerminatedNeverAdvances ==
    [][ \A s \in stopped \cap DOMAIN sessions \cap DOMAIN sessions' :
          /\ sessions'[s].step = sessions[s].step
          /\ sessions'[s].history = sessions[s].history
          /\ sessions'[s].current_context = sessions[s].current_context
          /\ \A t \in RequestTokenIds :
                 (resp'.op = "select" /\ select_token(s, t)) => resp'.status # 200 ]_vars

C5_DistributionClearedOnStop ==
    (AcceptedSelect /\ resp.body.should_continue = FALSE
        /\ resp.session_id \in DOMAIN sessions) =>
        sessions[resp.session_id].current_distribution = None

\* C6: after a select that continues, the session's current distribution is the
\* one built from the new context with the thresholds given when the session was
\* created, so its context is current_context; no request changes the stored
\* thresholds or the model binding.
C6_NextDistributionFromNewContext ==
    /\ \A s \in DOMAIN sessions :
          /\ sessions[s].min_threshold = created[s].min_threshold
          /\ sessions[s].secondary_threshold = created[s].secondary_threshold
          /\ sessions[s].model_key = created[s].model
    /\ (AcceptedSelect /\ resp.body.should_continue
          /\ resp.session_id \in DOMAIN sessions) =>
            LET session == sessions[resp.session_id]
                request == created[resp.session_id]
            IN  /\ session.current_distribution =
                       Some(build_distribution(
                                Probabilities(session.current_context),
                                session.current_context,
                                request.min_threshold,
                                request.secondary_threshold))
                /\ Get(session.current_distribution).context
                       = session.current_context

\* A session created with thresholds other than the defaults has continued.
C6_Witness ==
    /\ AcceptedSelect /\ resp.body.should_continue
    /\ resp.session_id \in DOMAIN sessions
    /\ created[resp.session_id].min_threshold = Scale
    /\ Get(sessions[resp.session_id].current_distribution)
          # NextDistributionDefaultThresholds(sessions[resp.session_id])

\* C7: a select whose token id is a candidate of the current distribution, or the
\* token id the latest spin of that distribution returned, is accepted and reports
\* decode(id) with the token's probability under the current context.
C7_CandidateSelectAccepted ==
    [][ \A s \in DOMAIN sessions, t \in RequestTokenIds :
          ( /\ sessions[s].current_distribution # None
            /\ sessions[s].step < MaxSteps
            /\ \/ t \in CandidateIds(Get(sessions[s].current_distribution))
               \/ /\ resp.op = "spin" /\ resp.status = 200
                  /\ resp.session_id = s
                  /\ resp.body.token_id = t
            /\ resp'.op = "select"
            /\ select_token(s, t) )
          => /\ resp'.status = 200
             /\ resp'.body.selected_token = Decode(t)
             /\ resp'.body.selected_token_probability =
                    Probabilities(sessions[s].current_context)[t + 1] ]_vars

\* C8: a select response carries next_tokens if and only if should_continue is
\* true, and then they are the token list of the session's new distribution.
C8_NextTokensIffContinue ==
    AcceptedSelect =>
        /\ resp.body.next_tokens # None <=> resp.body.should_continue
        /\ (resp.body.should_continue /\ resp.session_id \in DOMAIN sessions) =>
              resp.body.next_tokens =
                  Some(get_tokens_with_probabilities(
                           Get(sessions[resp.session_id].current_distribution)))

\* A select has stopped and its response carries no next_tokens.
C8_Witness ==
    /\ AcceptedSelect
    /\ resp.body.should_continue = FALSE
    /\ resp.body.next_tokens = None
    /\ resp.session_id \in DOMAIN sessions
    /\ sessions[resp.session_id].current_distribution # None

(***************************************************************************)
(* Builder harness: the builder applied to every probability vector over   *)
(* the vocabulary that sums to 1 and every pair of thresholds in [0, 1].   *)
(***************************************************************************)
ProbabilityVectors ==
    {v \in [1 .. VocabSize -> 0 .. Scale] :
        SumSeq([i \in 1 .. VocabSize |-> v[i]]) = Scale}

Thresholds == 0 .. Scale

InitBuilder ==
    /\ sessions = <<>>
    /\ created = <<>>
    /\ stopped = {}
    /\ now = 0
    /\ resp = NoResponse
    /\ b_probs \in ProbabilityVectors
    /\ b_min = 0
    /\ b_sec = 0
    /\ b_dist = None
    /\ b_wedges = <<>>
    /\ s_call = None
    /\ s_list = None

Build(min_threshold, secondary_threshold) ==
    /\ b_dist = None
    /\ b_min' = min_threshold
    /\ b_sec' = secondary_threshold
    /\ b_dist' = Some(get_next_token_distribution(BuilderContext, min_threshold,
                                                  secondary_threshold))
    /\ b_wedges' = map_distribution_to_wedges(Get(b_dist'))
    /\ UNCHANGED <<b_probs, session_vars, sampler_vars>>

NextBuilder == \E m \in Thresholds, s \in Thresholds : Build(m, s)

SpecBuilder == InitBuilder /\ [][NextBuilder]_vars

(***************************************************************************)
(* Claims about the distribution builder, checked under SpecBuilder.       *)
(***************************************************************************)
AtLeast(probs, threshold) == {t \in TokenIds : probs[t + 1] >= threshold}

\* The candidate set the two rules of the builder describe.
ExpectedCandidates(probs, min_threshold, secondary_threshold) ==
    LET primary == AtLeast(probs, min_threshold)
    IN  IF 5 * (Scale - SumOver(probs, primary)) > Scale
        THEN primary \cup AtLeast(probs, secondary_threshold)
        ELSE primary

\* C9: for every probability vector that sums to 1 and every pair of thresholds in
\* [0,1], the candidates' probabilities plus remaining_probability are 1, and
\* remaining_probability lies in [0,1].
C9_SumIsOne ==
    b_dist # None =>
        LET d == Get(b_dist)
        IN  /\ SumProbability(d.tokens) + d.remaining_probability = Scale
            /\ d.remaining_probability >= 0
            /\ d.remaining_probability <= Scale

\* A distribution whose secondary pass added candidates and left a remainder.
C9_Witness ==
    /\ b_dist # None
    /\ Len(Get(b_dist).tokens) > Cardinality(AtLeast(b_probs, b_min))
    /\ AtLeast(b_probs, b_min) # {}
    /\ Get(b_dist).remaining_probability > 0

\* C10: the candidates are exactly the entries with probability >= min_threshold,
\* plus, if and only if 1 minus their sum is strictly greater than 0.2, the further
\* entries with probability >= secondary_threshold; no token id appears twice, and
\* remaining_probability is 1 minus the sum over the final set.
C10_CandidateSet ==
    b_dist # None =>
        LET d        == Get(b_dist)
            expected == ExpectedCandidates(b_probs, b_min, b_sec)
        IN  /\ CandidateIds(d) = expected
            /\ Len(d.tokens) = Cardinality(expected)
            /\ d.num_tokens = Cardinality(expected)
            /\ d.remaining_probability = Scale - SumOver(b_probs, expected)

\* The primary remainder is exactly 0.2 and an entry that meets only the secondary
\* threshold is left out.
C10_Witness ==
    /\ b_dist # None
    /\ 5 * (Scale - SumOver(b_probs, AtLeast(b_probs, b_min))) = Scale
    /\ \E t \in AtLeast(b_probs, b_sec) : t \notin CandidateIds(Get(b_dist))

(***************************************************************************)
(* Claims about the order of the candidates and about the wedges, checked  *)
(* under SpecBuilder.                                                      *)
(***************************************************************************)
\* C11: the candidates are in order of non-increasing probability, and candidates of
\* equal probability are in ascending token id order, also when the primary pass
\* added some of them and the secondary pass others.
C11_CandidateOrder ==
    b_dist # None =>
        LET tokens == Get(b_dist).tokens
        IN  \A i, j \in 1 .. Len(tokens) :
                i < j => \/ tokens[i].probability > tokens[j].probability
                         \/ /\ tokens[i].probability = tokens[j].probability
                            /\ tokens[i].token_id < tokens[j].token_id

\* Both passes added candidates, a later id has the higher probability, and two
\* candidates have the same probability.
C11_Witness ==
    /\ b_dist # None
    /\ AtLeast(b_probs, b_min) # {}
    /\ Len(Get(b_dist).tokens) > Cardinality(AtLeast(b_probs, b_min))
    /\ \E i \in 1 .. Len(Get(b_dist).tokens) - 1 :
           Get(b_dist).tokens[i].probability = Get(b_dist).tokens[i + 1].probability
    /\ \E i \in 1 .. Len(Get(b_dist).tokens) - 1 :
           Get(b_dist).tokens[i].token_id > Get(b_dist).tokens[i + 1].token_id

C13_WedgePositiveWidth ==
    b_dist # None =>
        \A i \in 1 .. Len(b_wedges) :
            /\ 0 <= b_wedges[i].start_angle
            /\ b_wedges[i].start_angle < b_wedges[i].end_angle
            /\ b_wedges[i].end_angle <= FullCircle

\* The vocabulary [0.5, 0.3, 0.15, 0.05] of the worked scenarios.
ScenarioVocabulary ==
    /\ 2 * b_probs[1] = Scale
    /\ 10 * b_probs[2] = 3 * Scale
    /\ 20 * b_probs[3] = 3 * Scale
    /\ 20 * b_probs[4] = Scale

\* The (start_angle, end_angle) pairs of the wedges, in degrees times Scale.
WedgeBounds(wedges) ==
    [i \in 1 .. Len(wedges) |-> <<wedges[i].start_angle, wedges[i].end_angle>>]

CandidateIdSeq(distribution) ==
    [i \in 1 .. Len(distribution.tokens) |-> distribution.tokens[i].token_id]

\* C14: with min_threshold 0.1, secondary_threshold 0.05 and the vocabulary
\* [0.5, 0.3, 0.15, 0.05] the builder selects the first three entries, leaves 0.05,
\* runs no secondary pass, and the wedges are [0,180), [180,288), [288,342) and the
\* "other" wedge [342,360].
C14_DefaultThresholdsScenario ==
    (b_dist # None /\ ScenarioVocabulary /\ 10 * b_min = Scale /\ 20 * b_sec = Scale) =>
        /\ CandidateIdSeq(Get(b_dist)) = <<0, 1, 2>>
        /\ Get(b_dist).num_tokens = 3
        /\ 20 * Get(b_dist).remaining_probability = Scale
        /\ WedgeBounds(b_wedges) =
               << <<0, 180 * Scale>>, <<180 * Scale, 288 * Scale>>,
                  <<288 * Scale, 342 * Scale>>, <<342 * Scale, 360 * Scale>> >>
        /\ \A i \in 1 .. Len(b_wedges) : b_wedges[i].is_other <=> i = 4
        /\ b_wedges[4].token_id = -1
        /\ 20 * b_wedges[4].probability = Scale

C14_Witness ==
    /\ b_dist # None
    /\ ScenarioVocabulary
    /\ 10 * b_min = Scale
    /\ 20 * b_sec = Scale
    /\ Len(b_wedges) = 4

\* C15: with min_threshold 0.6, secondary_threshold 0.05 and the same vocabulary the
\* primary pass selects nothing, the secondary pass selects all four entries,
\* remaining_probability is 0 and there is no "other" wedge: the last candidate's
\* wedge ends at 360.
C15_SecondaryPassScenario ==
    (b_dist # None /\ ScenarioVocabulary /\ 5 * b_min = 3 * Scale /\ 20 * b_sec = Scale) =>
        /\ PrimaryMask(b_probs, b_min) = {}
        /\ CandidateIdSeq(Get(b_dist)) = <<0, 1, 2, 3>>
        /\ Get(b_dist).remaining_probability = 0
        /\ \A i \in 1 .. Len(b_wedges) : ~b_wedges[i].is_other
        /\ WedgeBounds(b_wedges) =
               << <<0, 180 * Scale>>, <<180 * Scale, 288 * Scale>>,
                  <<288 * Scale, 342 * Scale>>, <<342 * Scale, 360 * Scale>> >>

C15_Witness ==
    /\ b_dist # None
    /\ ScenarioVocabulary
    /\ 5 * b_min = 3 * Scale
    /\ 20 * b_sec = Scale
    /\ Len(b_wedges) = 4
    /\ ~Last(b_wedges).is_other

(***************************************************************************)
(* Sampler harness: one sampler call on a distribution built from every    *)
(* probability vector and each pair of SamplerThresholds.                  *)
(***************************************************************************)
\* (min_threshold, secondary_threshold): the defaults 0.1 and 0.05; 0.6 and 0.05,
\* where the secondary pass runs; both 0.0, where every entry is a candidate; both
\* 1.0, where at most one is.
SamplerThresholds ==
    { <<Scale \div 10, Scale \div 20>>, <<(3 * Scale) \div 5, Scale \div 20>>,
      <<0, 0>>, <<Scale, Scale>> }

\* The values of top_other_count tried: from none to the default.
TopOtherCounts == 0 .. TopOtherCount

\* The landing angles tried: one unit below 0 and above 360, and the start, the
\* middle, the last point before the end and the end of every wedge.
LandingAngles(wedges) ==
    {-1, FullCircle + 1}
        \cup UNION { { wedges[i].start_angle,
                       (wedges[i].start_angle + wedges[i].end_angle) \div 2,
                       wedges[i].end_angle - 1,
                       wedges[i].end_angle } : i \in 1 .. Len(wedges) }

\* The record of a sampler call: the method, its argument and what it returned or
\* raised.
Called(op, arg, result) == Some([op |-> op, arg |-> arg, result |-> result])

SampleToken ==
    /\ b_dist # None
    /\ s_call = None
    /\ s_list = None
    /\ \E r \in sample_token_from_distribution(Get(b_dist)) :
           s_call' = Called("sample_token_from_distribution", 0, r)
    /\ UNCHANGED <<session_vars, builder_vars, s_list>>

SelectFromAngle(landing_angle) ==
    /\ b_dist # None
    /\ s_call = None
    /\ s_list = None
    /\ \E r \in select_token_from_angle(Get(b_dist), landing_angle) :
           s_call' = Called("select_token_from_angle", landing_angle, r)
    /\ UNCHANGED <<session_vars, builder_vars, s_list>>

SelectById(token_id) ==
    /\ b_dist # None
    /\ s_call = None
    /\ s_list = None
    /\ \E r \in select_token_by_id(Get(b_dist), token_id) :
           s_call' = Called("select_token_by_id", token_id, r)
    /\ UNCHANGED <<session_vars, builder_vars, s_list>>

\* get_tokens_with_probabilities(distribution, top_other_count)
ListTokens(top_other_count) ==
    /\ b_dist # None
    /\ s_call = None
    /\ s_list = None
    /\ s_list' = Some([ top_other_count |-> top_other_count,
                        tokens          |-> TokensWithProbabilities(Get(b_dist),
                                                                    top_other_count) ])
    /\ UNCHANGED <<session_vars, builder_vars, s_call>>

NextSampler ==
    \/ \E thresholds \in SamplerThresholds : Build(thresholds[1], thresholds[2])
    \/ \E top_other_count \in TopOtherCounts : ListTokens(top_other_count)
    \/ SampleToken
    \/ \E landing_angle \in LandingAngles(b_wedges) : SelectFromAngle(landing_angle)
    \/ \E token_id \in RequestTokenIds : SelectById(token_id)

SpecSampler == InitBuilder /\ [][NextSampler]_vars

(***************************************************************************)
(* Claims about the sampler, checked under SpecSampler.                    *)
(***************************************************************************)
\* The sampler call made is op.
SamplerCalled(op) == s_call # None /\ Get(s_call).op = op

\* The wedges that hold the angle: start_angle <= angle < end_angle, and the last
\* wedge when the angle is 360.
WedgesHolding(wedges, angle) ==
    {i \in 1 .. Len(wedges) :
        \/ wedges[i].start_angle <= angle /\ angle < wedges[i].end_angle
        \/ angle = FullCircle /\ i = Len(wedges)}

\* C16: for every distribution and every landing angle in [0,360] selection by angle
\* resolves to exactly one wedge, the one with start_angle <= angle < end_angle, or
\* the last wedge at 360, and returns that wedge's token, or a token resampled from
\* the rest for the "other" wedge; an angle outside [0,360] fails and returns no
\* token.
C16_AngleResolvesToOneWedge ==
    SamplerCalled("select_token_from_angle") =>
        LET angle   == Get(s_call).arg
            r       == Get(s_call).result
            holding == WedgesHolding(b_wedges, angle)
        IN  IF 0 <= angle /\ angle <= FullCircle
            THEN /\ Cardinality(holding) = 1
                 /\ r.ok
                 /\ \A i \in holding :
                        /\ r.wedge_start = b_wedges[i].start_angle
                        /\ r.wedge_end = b_wedges[i].end_angle
                        /\ r.is_other = b_wedges[i].is_other
                        /\ ~b_wedges[i].is_other =>
                               /\ r.token_id = b_wedges[i].token_id
                               /\ r.token = b_wedges[i].token
                               /\ r.probability = b_wedges[i].probability
                        /\ b_wedges[i].is_other =>
                               r.token_id \in TokenIds \ CandidateIds(Get(b_dist))
            ELSE /\ ~r.ok
                 /\ r.error = "ValueError"
                 /\ r.token = <<>>

\* The pointer lands on the border of two wedges and the later wedge's token is
\* returned.
C16_Witness ==
    /\ SamplerCalled("select_token_from_angle")
    /\ Len(b_wedges) >= 2
    /\ Get(s_call).arg = b_wedges[2].start_angle
    /\ b_wedges[1].end_angle = b_wedges[2].start_angle
    /\ b_wedges[2].start_angle < b_wedges[2].end_angle
    /\ Get(s_call).result.ok
    /\ Get(s_call).result.token_id = b_wedges[2].token_id

\* C17: in all three selection modes a result with is_other = false carries the
\* token id of a candidate, and a result with is_other = true carries a vocabulary
\* id >= 0 that is not a candidate, never the label of the "other" wedge or -1.
C17_ConcreteTokenReturned ==
    (s_call # None /\ Get(s_call).result.ok) =>
        LET r == Get(s_call).result
        IN  /\ ~r.is_other => r.token_id \in CandidateIds(Get(b_dist))
            /\ r.is_other =>
                   /\ r.token_id \in TokenIds \ CandidateIds(Get(b_dist))
                   /\ r.token_id >= 0
                   /\ r.token = Decode(r.token_id)
                   /\ r.token # OtherToken

\* The random draw hit the "other" wedge and a token outside the candidates came
\* back.
C17_Witness ==
    /\ SamplerCalled("sample_token_from_distribution")
    /\ Get(s_call).result.ok
    /\ Get(s_call).result.is_other
    /\ Get(s_call).result.token_id \in TokenIds
    /\ Get(b_dist).tokens # <<>>

\* C18: every result has wedge_start <= target_angle <= wedge_end, and for selection
\* by landing angle target_angle is the angle supplied, also when the "other" wedge
\* is hit.
C18_TargetAngleInWedge ==
    (s_call # None /\ Get(s_call).result.ok) =>
        LET r == Get(s_call).result
        IN  /\ r.wedge_start <= r.target_angle
            /\ r.target_angle <= r.wedge_end
            /\ Get(s_call).op = "select_token_from_angle" =>
                   r.target_angle = Get(s_call).arg

\* A landing angle inside the "other" wedge, behind candidate wedges.
C18_Witness ==
    /\ SamplerCalled("select_token_from_angle")
    /\ Get(s_call).result.ok
    /\ Get(s_call).result.is_other
    /\ Get(s_call).result.wedge_start > 0
    /\ Get(s_call).result.wedge_start < Get(s_call).arg
    /\ Get(s_call).arg < Get(s_call).result.wedge_end

\* C19: selection by id returns, for the id of a candidate, that candidate's token,
\* id and probability with is_other = false and its wedge's bounds; for -1 a token
\* resampled from outside the candidates; for any other id it fails and returns no
\* token.
C19_SelectById ==
    SamplerCalled("select_token_by_id") =>
        LET id == Get(s_call).arg
            r  == Get(s_call).result
            d  == Get(b_dist)
        IN  /\ id \in CandidateIds(d) =>
                   /\ r.ok
                   /\ ~r.is_other
                   /\ r.token_id = id
                   /\ r.token = Decode(id)
                   /\ r.probability = b_probs[id + 1]
                   /\ \E i \in 1 .. Len(d.tokens) :
                          /\ b_wedges[i].token_id = id
                          /\ r.wedge_start = b_wedges[i].start_angle
                          /\ r.wedge_end = b_wedges[i].end_angle
            /\ id = -1 =>
                   IF r.ok
                   THEN /\ r.is_other
                        /\ r.token_id \in TokenIds \ CandidateIds(d)
                        /\ r.wedge_start = Last(b_wedges).start_angle
                        /\ r.wedge_end = Last(b_wedges).end_angle
                   ELSE CandidateIds(d) = TokenIds
            /\ id \notin CandidateIds(d) \cup {-1} =>
                   /\ ~r.ok
                   /\ r.error = "ValueError"
                   /\ r.token = <<>>

\* The id of a vocabulary token that is not a candidate was asked for.
C19_Witness ==
    /\ SamplerCalled("select_token_by_id")
    /\ Get(s_call).arg \in TokenIds \ CandidateIds(Get(b_dist))
    /\ ~Get(s_call).result.ok

(***************************************************************************)
(* Registry: two sessions side by side, with one prompt and one model.     *)
(***************************************************************************)
RegistryPrompts == {<<"a", "a", "a">>}

\* The defaults 0.1 and 0.05, and a primary threshold below the secondary one.
RegistryThresholds ==
    { <<Scale \div 10, Scale \div 20>>, <<Scale \div 20, Scale \div 10>> }

RegistryTokenIds == {-1, 0}

NextRegistry ==
    \/ \E prompt \in RegistryPrompts, model \in AvailableModels,
          thresholds \in RegistryThresholds :
            start_generation(prompt, model, thresholds[1], thresholds[2])
    \/ \E session_id \in SessionIds : spin_wheel(session_id)
    \/ \E session_id \in SessionIds, token_id \in RegistryTokenIds :
            select_token(session_id, token_id)
    \/ \E session_id \in SessionIds : get_session(session_id)
    \/ \E session_id \in SessionIds : delete_session(session_id)

SpecRegistry == Init /\ [][NextRegistry]_vars

(***************************************************************************)
(* Eviction: the clock moves, the sweep runs, and requests that create or  *)
(* find a session arrive until LastRequestTime; requests on ids out of the *)
(* registry arrive at any time.  The clock is followed at every third wake *)
(* of the sweep, long enough for every session to expire.                  *)
(***************************************************************************)
ClockStepMinutes == 3 * CLEANUP_INTERVAL_MINUTES

MaxTime == LastRequestTime + SESSION_TTL_MINUTES + ClockStepMinutes

EvictionPrompts == {<<"a">>}

EvictionThresholds == { <<Scale \div 10, Scale \div 20>> }

EvictionTokenIds == {-1}

\* datetime.utcnow() moves on.
Tick ==
    /\ now + ClockStepMinutes <= MaxTime
    /\ now' = now + ClockStepMinutes
    /\ UNCHANGED <<sessions, created, stopped, resp, builder_vars, sampler_vars>>

NextEviction ==
    \/ \E prompt \in EvictionPrompts, model \in AvailableModels,
          thresholds \in EvictionThresholds :
            /\ now <= LastRequestTime
            /\ start_generation(prompt, model, thresholds[1], thresholds[2])
    \/ \E session_id \in SessionIds :
            /\ now <= LastRequestTime \/ session_id \notin DOMAIN sessions
            /\ spin_wheel(session_id)
    \/ \E session_id \in SessionIds, token_id \in EvictionTokenIds :
            /\ now <= LastRequestTime \/ session_id \notin DOMAIN sessions
            /\ session_id \in DOMAIN sessions => sessions[session_id].step < EvictionSteps
            /\ select_token(session_id, token_id)
    \/ \E session_id \in SessionIds :
            /\ now <= LastRequestTime \/ session_id \notin DOMAIN sessions
            /\ get_session(session_id)
    \/ Tick
    \/ cleanup_expired_sessions

SpecEviction == Init /\ [][NextEviction]_vars

\* NextEviction for the one session of SpecSessionIds.
NextEvictionOne ==
    \/ \E prompt \in EvictionPrompts, model \in AvailableModels,
          thresholds \in EvictionThresholds :
            /\ now <= LastRequestTime
            /\ start_generation(prompt, model, thresholds[1], thresholds[2])
            /\ DOMAIN created' \subseteq SpecSessionIds
    \/ \E session_id \in SpecSessionIds :
            /\ now <= LastRequestTime \/ session_id \notin DOMAIN sessions
            /\ spin_wheel(session_id)
    \/ \E session_id \in SpecSessionIds, token_id \in EvictionTokenIds :
            /\ now <= LastRequestTime \/ session_id \notin DOMAIN sessions
            /\ session_id \in DOMAIN sessions => sessions[session_id].step < EvictionSteps
            /\ select_token(session_id, token_id)
    \/ \E session_id \in SpecSessionIds :
            /\ now <= LastRequestTime \/ session_id \notin DOMAIN sessions
            /\ get_session(session_id)
    \/ Tick
    \/ cleanup_expired_sessions

\* The clock never stops, and the sweep loop never ends.
SpecEvictionLive ==
    /\ Init
    /\ [][NextEvictionOne]_vars
    /\ WF_vars(Tick)
    /\ WF_vars(cleanup_expired_sessions)

(***************************************************************************)
(* Claims about the start request, checked under Spec.                     *)
(***************************************************************************)
OutOfRange(threshold) == threshold < 0 \/ threshold > Scale

\* C21: a start request whose primary or secondary threshold is outside [0,1] is
\* answered with HTTP 422, and no session is added to the registry.
C21_ThresholdOutOfRangeRejected ==
    [][ \A prompt \in RequestPrompts, model \in RequestModels,
           thresholds \in RequestThresholds :
          ( /\ OutOfRange(thresholds[1]) \/ OutOfRange(thresholds[2])
            /\ resp'.op = "start"
            /\ start_generation(prompt, model, thresholds[1], thresholds[2]) )
          => /\ resp'.status = 422
             /\ sessions' = sessions
             /\ created' = created ]_vars

\* A start request with a secondary threshold out of range was rejected while a
\* session was registered.
C21_Witness ==
    /\ resp.op = "start"
    /\ resp.status = 422
    /\ "secondary_threshold" \in resp.body
    /\ "prompt" \notin resp.body
    /\ sessions # <<>>

(***************************************************************************)
(* Claims about the registry, checked under SpecRegistry.                  *)
(***************************************************************************)
\* C22: a start request whose primary threshold is strictly below its secondary
\* threshold is rejected: no session is ever created for such a configuration.
C22_PrimaryBelowSecondaryRejected ==
    \A id \in DOMAIN created :
        ~(created[id].min_threshold < created[id].secondary_threshold)

\* The latest request was a start that was accepted (HTTP 200).
AcceptedStart == resp.op = "start" /\ resp.status = 200

\* C23: an accepted start registers a new session under an id that no session was
\* ever issued, with step 0, an empty history, the prompt as current_context and
\* the distribution of the prompt; every session registered before is unchanged.
C23_StartRegistersFreshSession ==
    [][ AcceptedStart' =>
          LET id == resp'.session_id
          IN  /\ id \notin DOMAIN created
              /\ id \notin DOMAIN sessions
              /\ DOMAIN sessions' = DOMAIN sessions \cup {id}
              /\ DOMAIN created' = DOMAIN created \cup {id}
              /\ sessions'[id].session_id = id
              /\ sessions'[id].step = 0
              /\ sessions'[id].history = <<>>
              /\ sessions'[id].current_context = created'[id].prompt
              /\ resp'.body.context = created'[id].prompt
              /\ resp'.body.step = 0
              /\ sessions'[id].current_distribution =
                     Some(get_next_token_distribution(created'[id].prompt,
                              created'[id].min_threshold,
                              created'[id].secondary_threshold))
              /\ \A other \in DOMAIN sessions : sessions'[other] = sessions[other] ]_vars

\* A second session was started next to a session that has advanced.
C23_Witness ==
    /\ AcceptedStart
    /\ Cardinality(DOMAIN sessions) = 2
    /\ \E other \in DOMAIN sessions :
           other # resp.session_id /\ sessions[other].step >= 1
    /\ sessions[resp.session_id].step = 0

\* C24: spin, select, get and delete on a session id that is not in the registry
\* are each answered with HTTP 404 and leave the registry and every session
\* unchanged.
C24_UnknownSessionNotFound ==
    [][ \A s \in SessionIds \ DOMAIN sessions :
          ( /\ resp'.session_id = s
            /\ \/ spin_wheel(s)
               \/ get_session(s)
               \/ delete_session(s)
               \/ \E t \in RegistryTokenIds : select_token(s, t) )
          => /\ resp'.status = 404
             /\ resp'.op \in {"spin", "select", "get", "delete"}
             /\ sessions' = sessions ]_vars

\* A select on an id that was never issued, answered 404 while another session is
\* registered.
C24_Witness ==
    /\ resp.op = "select"
    /\ resp.status = 404
    /\ resp.session_id \notin DOMAIN created
    /\ sessions # <<>>

\* C25: once delete has succeeded on an id the id is out of the registry: every
\* later get, spin, select or delete on it is answered 404, the id is never
\* registered again, and the delete leaves every other session registered and
\* unchanged.
C25_DeletedStaysDeleted ==
    [][ /\ \A id \in DOMAIN created \ DOMAIN sessions :
               /\ id \notin DOMAIN sessions'
               /\ ( /\ resp'.session_id = id
                    /\ \/ spin_wheel(id)
                       \/ get_session(id)
                       \/ delete_session(id)
                       \/ \E t \in RegistryTokenIds : select_token(id, t) )
                  => resp'.status = 404
        /\ \A id \in DOMAIN sessions :
               (resp'.op = "delete" /\ resp'.session_id = id /\ delete_session(id))
               => /\ resp'.status = 200
                  /\ DOMAIN sessions' = DOMAIN sessions \ {id}
                  /\ \A other \in DOMAIN sessions' :
                         sessions'[other] = sessions[other] ]_vars

\* A get on a deleted id, answered 404 while the other session, which has advanced,
\* is registered.
C25_Witness ==
    /\ resp.op = "get"
    /\ resp.status = 404
    /\ resp.session_id \in DOMAIN created
    /\ \E other \in DOMAIN sessions : sessions[other].step >= 1

\* C26: a select, spin, get or delete on one session never changes the
\* current_context, step, history, thresholds or current distribution of another
\* session, in any interleaving of the requests on the two sessions.
C26_SessionsIndependent ==
    [][ \A s \in SessionIds :
          (resp'.session_id = s /\ resp'.op \in {"spin", "select", "get", "delete"})
          => \A other \in DOMAIN sessions \ {s} :
                /\ other \in DOMAIN sessions'
                /\ sessions'[other].current_context = sessions[other].current_context
                /\ sessions'[other].step = sessions[other].step
                /\ sessions'[other].history = sessions[other].history
                /\ sessions'[other].min_threshold = sessions[other].min_threshold
                /\ sessions'[other].secondary_threshold =
                       sessions[other].secondary_threshold
                /\ sessions'[other].current_distribution =
                       sessions[other].current_distribution ]_vars

\* Both sessions have advanced, one of them twice, and the latest request was an
\* accepted select.
C26_Witness ==
    /\ AcceptedSelect
    /\ Cardinality(DOMAIN sessions) = 2
    /\ sessions[resp.session_id].step = 2
    /\ \A other \in DOMAIN sessions : sessions[other].step >= 1
    /\ \E other \in DOMAIN sessions :
           sessions[other].current_context # sessions[resp.session_id].current_context

(***************************************************************************)
(* Claim about concurrent selects on one session, checked under Spec: the  *)
(* handlers are async functions without an await, so that the event loop   *)
(* runs each to its end, in any order.                                     *)
(***************************************************************************)
\* C28: selects on one session serialize: in every interleaving each accepted
\* select adds exactly its token to history and 1 to step, no other request
\* changes them, and the current distribution is that of the context after it.
C28_AdvancesSerialize ==
    [][ \A s \in DOMAIN sessions \cap DOMAIN sessions' :
          IF AcceptedSelect' /\ resp'.session_id = s /\ sessions'[s] # sessions[s]
          THEN /\ sessions'[s].step = sessions[s].step + 1
               /\ sessions'[s].history =
                      Append(sessions[s].history, resp'.body.selected_token)
               /\ sessions'[s].current_context =
                      sessions[s].current_context \o resp'.body.selected_token
               /\ sessions'[s].current_distribution # None
               /\ Get(sessions'[s].current_distribution).context =
                      sessions'[s].current_context
          ELSE /\ sessions'[s].step = sessions[s].step
               /\ sessions'[s].history = sessions[s].history ]_vars

(***************************************************************************)
(* Claims about reads and about eviction, checked under SpecEviction.      *)
(***************************************************************************)
\* C27: a spin and a get leave step, history, current_context and
\* current_distribution of the session as they are and only refresh last_accessed,
\* so the tokens a select can resolve are the same after any number of spins.
C27_SpinAndGetDoNotAdvance ==
    [][ \A s \in DOMAIN sessions :
          ( /\ resp'.session_id = s
            /\ now' = now
            /\ \/ resp'.op = "spin" /\ spin_wheel(s)
               \/ resp'.op = "get" /\ get_session(s) )
          => /\ s \in DOMAIN sessions'
             /\ sessions'[s] = [sessions[s] EXCEPT !.last_accessed = now]
             /\ \A t \in EvictionTokenIds :
                    ResolveToken(Get(sessions'[s].current_distribution), t)
                        = ResolveToken(Get(sessions[s].current_distribution), t) ]_vars

\* A spin, later than the session's start and after it has advanced, refreshed
\* last_accessed.
C27_Witness ==
    /\ resp.op = "spin"
    /\ resp.status = 200
    /\ resp.session_id \in DOMAIN sessions
    /\ sessions[resp.session_id].step = 1
    /\ sessions[resp.session_id].last_accessed = now
    /\ sessions[resp.session_id].created_at < now

\* C29: the sweep removes a session only if now - last_accessed is strictly above
\* the TTL of 30 minutes and leaves every other session registered and unchanged;
\* every spin, select or get on a registered session sets last_accessed to now.
C29_EvictionOnlyWhenExpired ==
    [][ /\ \A s \in DOMAIN sessions \ DOMAIN sessions' :
               now - sessions[s].last_accessed > SESSION_TTL_MINUTES
        /\ cleanup_expired_sessions =>
               \A s \in DOMAIN sessions :
                   now - sessions[s].last_accessed <= SESSION_TTL_MINUTES
                   => s \in DOMAIN sessions' /\ sessions'[s] = sessions[s]
        /\ \A s \in DOMAIN sessions :
               ( /\ resp'.session_id = s
                 /\ now' = now
                 /\ DOMAIN sessions' = DOMAIN sessions
                 /\ \/ resp'.op = "spin" /\ spin_wheel(s)
                    \/ resp'.op = "get" /\ get_session(s)
                    \/ /\ resp'.op = "select"
                       /\ \E t \in EvictionTokenIds : select_token(s, t) )
               => sessions'[s].last_accessed = now ]_vars

\* A sweep has removed one session and kept the other, which has been idle for
\* exactly the TTL.
C29_Witness ==
    /\ DOMAIN created \ DOMAIN sessions # {}
    /\ \E s \in DOMAIN sessions :
           now - sessions[s].last_accessed = SESSION_TTL_MINUTES

(***************************************************************************)
(* Claim about eviction in the end, checked under SpecEvictionLive.        *)
(***************************************************************************)
\* The clock values of the eviction model.
ClockValues == {t \in 0 .. MaxTime : t % ClockStepMinutes = 0}

\* C30: a session that is not accessed again is eventually removed from the
\* registry by the sweep, and from then on every request on its id is answered
\* 404.
C30_IdleSessionEventuallyEvicted ==
    /\ \A s \in SpecSessionIds, t \in ClockValues :
           (s \in DOMAIN sessions /\ sessions[s].last_accessed = t)
               ~> (s \notin DOMAIN sessions \/ sessions[s].last_accessed # t)
    /\ [][ \A s \in DOMAIN created \ DOMAIN sessions :
              ( /\ resp'.session_id = s
                /\ now' = now
                /\ \/ spin_wheel(s)
                   \/ get_session(s)
                   \/ \E t \in EvictionTokenIds : select_token(s, t) )
              => resp'.status = 404 /\ sessions' = sessions ]_vars

\* The session has been evicted, and a get on its id was answered 404.
C30_Witness ==
    /\ created # <<>>
    /\ sessions = <<>>
    /\ now > SESSION_TTL_MINUTES
    /\ resp.op = "get"
    /\ resp.status = 404
    /\ resp.session_id \in DOMAIN created

(***************************************************************************)
(* Generation to the end: one client with one session, which starts near   *)
(* the length limit and advances with the tokens of the list it was sent.  *)
(***************************************************************************)
\* Prompts of max_length - 2 and max_length - 1 tokens.
GenerationPrompts == {LongPrompt, LongPrompt \o <<"b">>}

\* The defaults 0.1 and 0.05, and both thresholds 0.0.
GenerationThresholds == { <<Scale \div 10, Scale \div 20>>, <<0, 0>> }

\* The token ids of the list sent to the client: t['token_id'] of
\* get_tokens_with_probabilities(distribution).
ListedTokenIds(distribution) ==
    LET tokens == get_tokens_with_probabilities(distribution)
    IN  {tokens[i].token_id : i \in 1 .. Len(tokens)}

\* POST /api/select with a token id of the list of the session's distribution.
AdvanceWithListedToken(session_id) ==
    /\ session_id \in DOMAIN sessions
    /\ sessions[session_id].current_distribution # None
    /\ \E token_id \in ListedTokenIds(Get(sessions[session_id].current_distribution)) :
           select_token(session_id, token_id)

NextGeneration ==
    \/ \E prompt \in GenerationPrompts, model \in AvailableModels,
          thresholds \in GenerationThresholds :
            /\ start_generation(prompt, model, thresholds[1], thresholds[2])
            /\ DOMAIN created' \subseteq SpecSessionIds
    \/ \E session_id \in SpecSessionIds : spin_wheel(session_id)
    \/ \E session_id \in SpecSessionIds : AdvanceWithListedToken(session_id)
    \/ \E session_id \in SpecSessionIds : get_session(session_id)

SpecGeneration == Init /\ [][NextGeneration]_vars

(***************************************************************************)
(* Claim about termination, checked under SpecGeneration.                  *)
(***************************************************************************)
\* C31: generation terminates: as long as the session has not been answered
\* should_continue = False, every advance with a token of the list of the current
\* distribution is accepted, and it either answers should_continue = False or
\* leaves a longer context of fewer than max_length tokens.  Every token string has
\* at least one character, and a context of fewer than max_length tokens has
\* fewer than max_length times the longest token string's characters, so that
\* only finitely many advances can continue.
C31_GenerationTerminates ==
    [][ /\ \A t \in TokenIds : Len(Decode(t)) >= 1
        /\ \A s \in DOMAIN sessions \ stopped :
              ( /\ resp'.op = "select"
                /\ resp'.session_id = s
                /\ AdvanceWithListedToken(s) )
              => /\ resp'.status = 200
                 /\ resp'.body.should_continue =>
                        /\ Len(sessions'[s].current_context)
                               > Len(sessions[s].current_context)
                        /\ TokenizeLength(sessions'[s].current_context) < MaxLength ]_vars

(***************************************************************************)
(* Claims about failures, checked under Spec.                              *)
(***************************************************************************)
\* C32: failures of different kinds are answered differently: no response to a
\* select is at once the answer to a token id that matches nothing (NotFound) and
\* the answer to the sentinel -1 on a distribution whose excluded set is empty
\* (InvalidState).
C32_FailureKindsDistinct ==
    [][ \A s \in DOMAIN sessions :
          LET distribution == Get(sessions[s].current_distribution)
          IN  \A t \in RequestTokenIds \ (TokenIds \cup {-1}) :
                 ( /\ resp'.op = "select"
                   /\ resp'.session_id = s
                   /\ resp'.status # 200
                   /\ TokenIds \ CandidateIds(distribution) = {} )
                 => ~(select_token(s, t) /\ select_token(s, -1)) ]_vars

(***************************************************************************)
(* Claims about the "other" wedge, checked under SpecSampler.              *)
(***************************************************************************)
\* C33: on a distribution whose excluded set is empty (every vocabulary id is a
\* candidate) the resample from "other" fails and returns no token: selecting the
\* sentinel id -1 raises an error, and no selection returns a result with
\* is_other = true.
C33_EmptyExcludedSetFails ==
    (s_call # None /\ CandidateIds(Get(b_dist)) = TokenIds) =>
        LET r == Get(s_call).result
        IN  /\ \A a \in Uniform(0, FullCircle) :
                   sample_from_other(Get(b_dist), Last(b_wedges), a)
                       = {Raised("ValueError")}
            /\ (SamplerCalled("select_token_by_id") /\ Get(s_call).arg = -1) =>
                   /\ ~r.ok
                   /\ r.error = "ValueError"
                   /\ r.token = <<>>
            /\ r.ok => ~r.is_other

\* The sentinel -1 was selected on a distribution with remaining_probability 0 in
\* which every vocabulary id is a candidate, and the call failed.
C33_Witness ==
    /\ SamplerCalled("select_token_by_id")
    /\ Get(s_call).arg = -1
    /\ CandidateIds(Get(b_dist)) = TokenIds
    /\ Get(b_dist).remaining_probability = 0
    /\ ~Get(s_call).result.ok

(***************************************************************************)
(* Claim about the "other" wedge of the mapper, checked under SpecBuilder. *)
(***************************************************************************)
\* C34: the wedges end with an "other" wedge (token "<OTHER>", token_id -1,
\* is_other) if and only if remaining_probability > 0; it is the last wedge and
\* the only one with is_other; when no vocabulary entry meets either threshold
\* there is no candidate, remaining_probability is 1 and the wheel is the one
\* "other" wedge from 0 to 360.
C34_OtherWedgeIffRemaining ==
    b_dist # None =>
        LET d == Get(b_dist)
            n == Len(d.tokens)
        IN  /\ Len(b_wedges) = n + (IF d.remaining_probability > 0 THEN 1 ELSE 0)
            /\ \A i \in 1 .. n :
                   ~b_wedges[i].is_other /\ b_wedges[i].token_id = d.tokens[i].token_id
            /\ d.remaining_probability > 0 =>
                   /\ Last(b_wedges).is_other
                   /\ Last(b_wedges).token = OtherToken
                   /\ Last(b_wedges).token_id = -1
            /\ (\E i \in 1 .. Len(b_wedges) : b_wedges[i].is_other)
                   <=> d.remaining_probability > 0
            /\ (AtLeast(b_probs, b_min) = {} /\ AtLeast(b_probs, b_sec) = {}) =>
                   /\ d.tokens = <<>>
                   /\ d.remaining_probability = Scale
                   /\ Len(b_wedges) = 1
                   /\ b_wedges[1].is_other
                   /\ b_wedges[1].start_angle = 0
                   /\ b_wedges[1].end_angle = FullCircle

\* No entry of the vector meets the thresholds: the wheel is one "other" wedge.
C34_Witness ==
    /\ b_dist # None
    /\ AtLeast(b_probs, b_min) = {}
    /\ AtLeast(b_probs, b_sec) = {}
    /\ Len(b_wedges) = 1
    /\ b_wedges[1].is_other

(***************************************************************************)
(* Claims about results from "other", checked under SpecSampler.           *)
(***************************************************************************)
\* C35: a result with is_other = true carries the bounds of the wedge of the
\* distribution that has is_other = true, in every selection mode and also when
\* remaining_probability is 0.
C35_OtherResultHasOtherWedgeBounds ==
    (s_call # None /\ Get(s_call).result.ok /\ Get(s_call).result.is_other) =>
        \E i \in 1 .. Len(b_wedges) :
            /\ b_wedges[i].is_other
            /\ Get(s_call).result.wedge_start = b_wedges[i].start_angle
            /\ Get(s_call).result.wedge_end = b_wedges[i].end_angle

\* A result that came from "other" on a distribution with remaining_probability > 0.
OtherResultWithRemaining ==
    /\ s_call # None
    /\ Get(s_call).result.ok
    /\ Get(s_call).result.is_other
    /\ Get(b_dist).remaining_probability > 0

C37_TokenList ==
    s_list # None =>
        LET d        == Get(b_dist)
            list     == Get(s_list).tokens
            count    == Get(s_list).top_other_count
            n        == Len(d.tokens)
            excluded == {t \in TokenIds \ CandidateIds(d) : b_probs[t + 1] > 0}
        IN  /\ Len(list) = n + (IF d.remaining_probability > 0 THEN 1 ELSE 0)
            /\ \A i \in 1 .. n :
                   /\ list[i].token_id = d.tokens[i].token_id
                   /\ list[i].token = d.tokens[i].token
                   /\ list[i].probability = d.tokens[i].probability
                   /\ ~list[i].is_other
            /\ SumProbability(list) = Scale
            /\ d.remaining_probability > 0 =>
                   LET other == Last(list)
                       top   == Get(other.other_top_tokens)
                   IN  /\ other.token_id = -1
                       /\ other.is_other
                       /\ other.probability = d.remaining_probability
                       /\ Len(top) <= count
                       /\ Len(top) = Min(count, Cardinality(excluded))
                       /\ \A i \in 1 .. Len(top) :
                              /\ top[i].token_id \in excluded
                              /\ top[i].probability = b_probs[top[i].token_id + 1]
                       /\ \A i, j \in 1 .. Len(top) :
                              i < j => /\ top[i].probability >= top[j].probability
                                       /\ top[i].token_id # top[j].token_id
                       /\ \A t \in excluded, i \in 1 .. Len(top) :
                              (\A j \in 1 .. Len(top) : top[j].token_id # t)
                                  => b_probs[t + 1] <= top[i].probability

\* A list whose "other" entry has fewer top tokens than there are tokens outside
\* the candidates: top_other_count cut the list short.
C37_Witness ==
    /\ s_list # None
    /\ Get(b_dist).tokens # <<>>
    /\ Get(b_dist).remaining_probability > 0
    /\ Len(Get(Last(Get(s_list).tokens).other_top_tokens)) = 2
    /\ Get(Last(Get(s_list).tokens).remaining_count) = 3

(***************************************************************************)
(* Claim about token ids outside the vocabulary, checked under Spec.       *)
(***************************************************************************)
\* C38: a select with a token id that is neither a vocabulary id nor -1 is
\* answered NotFound (404) and leaves step, history, current_context and
\* current_distribution of the session as they were.
C38_InvalidTokenIdNotFound ==
    [][ \A s \in DOMAIN sessions :
          \A t \in RequestTokenIds \ (TokenIds \cup {-1}) :
             ( /\ resp'.op = "select"
               /\ resp'.session_id = s
               /\ select_token(s, t) )
             => /\ resp'.status = 404
                /\ s \in DOMAIN sessions'
                /\ sessions'[s] = Touch(sessions[s]) ]_vars

(***************************************************************************)
(* Failure of the language model during a select.  The handlers above take *)
(* the model as a function that always answers; select_token documents     *)
(* "500 if generation fails" and catches every exception of the calls it   *)
(* makes (main.py 627-630).  SpecGenerationFails adds the run of the       *)
(* handler in which generator.get_next_token_distribution raises.          *)
(***************************************************************************)
\* POST /api/select, when the token is resolved, the generation continues and
\* generator.get_next_token_distribution (main.py 594-598) raises: the handler
\* has already assigned current_context, appended to history and incremented
\* step (main.py 575-583), has not reached session.current_distribution =
\* next_distribution (main.py 604), and answers 500.
select_token_generation_fails(session_id, selected_token_id) ==
    /\ session_id \in DOMAIN sessions
    /\ LET session == Touch(sessions[session_id])
       IN  /\ session.current_distribution # None
           /\ \E token_info \in ResolveToken(Get(session.current_distribution),
                                              selected_token_id) :
                 /\ token_info.ok
                 /\ LET advanced == Advance(session, token_info.token)
                    IN  /\ ~should_end_generation(token_info,
                                                  advanced.current_context)
                        /\ session.step < MaxSteps
                        /\ sessions' = [sessions EXCEPT ![session_id] = advanced]
                        /\ resp' = HttpError("select", session_id, 500)
                        /\ UNCHANGED <<created, stopped, now, builder_vars,
                                       sampler_vars>>

NextGenerationFails ==
    \/ \E prompt \in RequestPrompts, model \in RequestModels,
          thresholds \in RequestThresholds :
            /\ start_generation(prompt, model, thresholds[1], thresholds[2])
            /\ DOMAIN created' \subseteq SpecSessionIds
    \/ \E session_id \in SpecSessionIds : spin_wheel(session_id)
    \/ \E session_id \in SpecSessionIds, token_id \in RequestTokenIds :
            select_token(session_id, token_id)
    \/ \E session_id \in SpecSessionIds, token_id \in RequestTokenIds :
            select_token_generation_fails(session_id, token_id)
    \/ \E session_id \in SpecSessionIds : get_session(session_id)
    \/ \E session_id \in SpecSessionIds : delete_session(session_id)

SpecGenerationFails == Init /\ [][NextGenerationFails]_vars

(***************************************************************************)
(* Claim about failed selects, checked under SpecGenerationFails.          *)
(***************************************************************************)
\* C39: a select that is answered with an error leaves step, history,
\* current_context and current_distribution of the session as they were; only
\* last_accessed may change.
C39_ErrorLeavesSessionUnchanged ==
    [][ \A s \in DOMAIN sessions :
          ( /\ resp'.op = "select"
            /\ resp'.session_id = s
            /\ resp'.status # 200 )
          => /\ s \in DOMAIN sessions'
             /\ sessions'[s] = Touch(sessions[s]) ]_vars

====
